---- MODULE Spec2Model ----
(***************************************************************************)
(* EchoMind real-time session transport.                                   *)
(*                                                                         *)
(* The model follows the frontend sources:                                 *)
(*   useWebSocket    components/call-interface.tsx 438-544                 *)
(*   CallsPage       app/calls/page.tsx                                    *)
(*   useCallSession  hooks/use-call-session.ts                             *)
(*   CallInterface   components/call-interface.tsx 32-164, 273-283         *)
(*   InsightsPanel   components/insights-panel.tsx 34-54                   *)
(*                                                                         *)
(* One step of the model is one browser task (an event handler, a timer    *)
(* callback, a promise continuation with the microtasks it triggers).      *)
(* The only exception is the task that closes a failed socket: the browser *)
(* fires its error event and then its close event in the same task, and    *)
(* the model takes the two handlers as two steps joined by the variable    *)
(* task, during which nothing else runs.                                   *)
(***************************************************************************)
EXTENDS Integers, Sequences, FiniteSets, TLC

VARIABLES
    \* ---- useWebSocket: React state and refs
    isConnected,            \* useState(false)
    connectionStatus,       \* 'connecting' | 'connected' | 'disconnected' | 'error'
    error,                  \* useState<string | null>(null)
    lastMessage,            \* useState<string | null>(null)
    wsRef,                  \* socket id, NoSocket for null
    reconnectTimeoutRef,    \* timer id, NoTimer for null
    reconnectAttemptsRef,   \* useRef(0)
    \* ---- the browser: sockets, timers, the running close task
    sockets,                \* sequence of sockets ever created, id = index
    timers,                 \* ids of the pending setTimeout callbacks
    task,                   \* socket whose error event fired and close event is due
    urlOk,                  \* whether new WebSocket(url) accepts the configured url
    \* ---- CallsPage
    mounted,                \* the mount effect ran and its cleanup did not
    sessionId,              \* useState<string | null>(null)
    transcripts,            \* useState<string[]>([])
    aiStatus,               \* useState('idle')
    toasts,                 \* react-hot-toast notifications, in order
    effectDep,              \* lastMessage as of the last run of the [lastMessage] effects
    parseErrors,            \* console.error calls of the two JSON.parse catch blocks
    \* ---- InsightsPanel
    insights,               \* useState<Insight[]>([])
    \* ---- useCallSession
    sessionStatus,          \* 'idle' | 'starting' | 'active' | 'ending' | 'error'
    sessionData,            \* useState<SessionData | null>(null): the session's id
    sessError,              \* useCallSession's error state
    requests,               \* session-metadata requests awaiting their response
    \* ---- CallInterface
    isCallActive,           \* useState(false)
    isRecording,            \* useState(false)
    acquiring,              \* getUserMedia promises not yet resolved
    recorders,              \* MediaRecorders started and not stopped
    mediaRecorderRef,       \* TRUE when the ref holds a recorder
    flushing,               \* stopped recorders whose last dataavailable is due
    readers,                \* chunks whose FileReader has not finished
    \* ---- history
    nConnects,              \* runs of the mount effect (explicit connect calls)
    nDisconnects,           \* runs of its cleanup (explicit disconnect calls)
    nPresses,               \* presses of the Start/End button
    nChunks,                \* dataavailable events with a non-empty blob
    arrived,                \* frames received by onmessage, in order
    delivered,              \* frames the router effect has processed, in order
    statusTrace,            \* values sessionStatus has taken, in order
    callLog,                \* presses of Start/End and outcomes of their requests
    sendLog,                \* sendMessage calls, in order, with their outcome
    wire,                   \* what WebSocket.send wrote: the socket and the call
    lastCall,               \* the last explicit call: "none", "connect" or "disconnect"
    lastConnect             \* who ran connect() last: "none", "call" or "timer"

wsVars == <<isConnected, connectionStatus, error, lastMessage, wsRef,
            reconnectTimeoutRef, reconnectAttemptsRef>>
envVars == <<sockets, timers, task, urlOk>>
pageVars == <<mounted, sessionId, transcripts, aiStatus, toasts, effectDep,
              parseErrors, insights>>
sessVars == <<sessionStatus, sessionData, sessError, requests>>
recVars == <<isCallActive, isRecording, acquiring, recorders, mediaRecorderRef,
             flushing, readers>>
histVars == <<nConnects, nDisconnects, nPresses, nChunks, arrived, delivered,
              statusTrace, callLog, sendLog, wire, lastCall, lastConnect>>
vars == <<wsVars, envVars, pageVars, sessVars, recVars, histVars>>

(***************************************************************************)
(* Bounds of the model.                                                    *)
(***************************************************************************)
MaxSockets == 2         \* sockets created in the page-level systems
MaxSocketsT == 7        \* sockets created in the transport system
MaxSocketsB == 7        \* sockets created in the retry-budget system
MaxSendsB == 1          \* sendMessage calls in the retry-budget system
MaxSocketsA == 4        \* sockets created in the hook-level system
MaxConnects == 2        \* explicit connect calls
MaxDisconnects == 2     \* explicit disconnect calls
MaxFrames == 3          \* inbound frames
MaxFramesP == 11        \* inbound frames in the insight-history system
MaxPresses == 2         \* presses of the Start/End button
MaxPressesC == 3        \* presses of the button in the call-sequence system
MaxChunks == 2          \* audio chunks captured
MaxSends == 3           \* sendMessage calls in the send system

(***************************************************************************)
(* Program constants.                                                      *)
(***************************************************************************)
maxReconnectAttempts == 5
NormalClosure == 1000
NoSocket == 0
NoTimer == 0
NoSession == 0
Null == "<null>"

\* Close codes an onclose handler can be handed: normal closure, going away
\* (a clean server-initiated close with another code), abnormal closure.
AbnormalClosure == 1006
GoingAway == 1001

ReadyStates == {"CONNECTING", "OPEN", "CLOSING", "CLOSED"}
ConnectionStatuses == {"connecting", "connected", "disconnected", "error"}
SessionStatuses == {"idle", "starting", "active", "ending", "error"}

Min(a, b) == IF a < b THEN a ELSE b

(***************************************************************************)
(* Initial state: the hooks' useState/useRef initial values, before the    *)
(* mount effect of CallsPage has run.                                      *)
(***************************************************************************)
Init ==
    /\ isConnected = FALSE
    /\ connectionStatus = "disconnected"
    /\ error = Null
    /\ lastMessage = Null
    /\ wsRef = NoSocket
    /\ reconnectTimeoutRef = NoTimer
    /\ reconnectAttemptsRef = 0
    /\ sockets = <<>>
    /\ timers = {}
    /\ task = NoSocket
    /\ urlOk \in BOOLEAN
    /\ mounted = FALSE
    /\ sessionId = NoSession
    /\ transcripts = <<>>
    /\ aiStatus = "idle"
    /\ toasts = <<>>
    /\ effectDep = Null
    /\ parseErrors = <<>>
    /\ insights = <<>>
    /\ sessionStatus = "idle"
    /\ sessionData = NoSession
    /\ sessError = Null
    /\ requests = {}
    /\ isCallActive = FALSE
    /\ isRecording = FALSE
    /\ acquiring = 0
    /\ recorders = 0
    /\ mediaRecorderRef = FALSE
    /\ flushing = 0
    /\ readers = {}
    /\ nConnects = 0
    /\ nDisconnects = 0
    /\ nPresses = 0
    /\ nChunks = 0
    /\ arrived = <<>>
    /\ delivered = <<>>
    /\ statusTrace = <<"idle">>
    /\ callLog = <<>>
    /\ sendLog = <<>>
    /\ wire = <<>>
    /\ lastCall = "none"
    /\ lastConnect = "none"

(***************************************************************************)
(* useWebSocket                                                            *)
(***************************************************************************)

\* The socket with readyState r; established tells whether the connection
\* behind it stands (the opening handshake is done and the connection is not
\* closed yet), which decides how a close() on it ends.
Socket(r, e) == [readyState |-> r, established |-> e]

SocketIds == DOMAIN sockets

IsOpen(s) == s # NoSocket /\ sockets[s].readyState = "OPEN"

\* Math.min(1000 * Math.pow(2, reconnectAttemptsRef.current), 30000)
ReconnectDelay(n) == Min(1000 * 2^n, 30000)

\* connect(clientId), the body of the try block and the catch block.  The
\* handlers it installs are onopen, onmessage, onclose and onerror below.
connect ==
    IF urlOk
    THEN /\ connectionStatus' = "connecting"
         /\ error' = Null
         /\ sockets' = Append(sockets, Socket("CONNECTING", FALSE))
         /\ wsRef' = Len(sockets) + 1
    ELSE /\ connectionStatus' = "error"
         /\ error' = "Failed to connect to WebSocket"
         /\ UNCHANGED <<sockets, wsRef>>

\* A variant of onopen that leaves the attempt counter as it is;
\* C14_OpenResetsAttempts distinguishes it from the code.
onopenKeepsAttempts ==
    /\ isConnected' = TRUE
    /\ connectionStatus' = "connected"
    /\ error' = Null
    /\ UNCHANGED reconnectAttemptsRef

\* ws.onopen
onopen ==
    /\ isConnected' = TRUE
    /\ connectionStatus' = "connected"
    /\ error' = Null
    /\ reconnectAttemptsRef' = 0

\* ws.onmessage
onmessage(data) ==
    /\ lastMessage' = data

\* A variant of onclose that also counts a normal closure as an attempt,
\* without scheduling a retry; C26_CounterFrame distinguishes it from the
\* code.
oncloseCountsEveryClosure(s, code) ==
    /\ isConnected' = FALSE
    /\ connectionStatus' = "disconnected"
    /\ IF reconnectAttemptsRef < maxReconnectAttempts
       THEN /\ reconnectAttemptsRef' = reconnectAttemptsRef + 1
            /\ IF code # NormalClosure
               THEN /\ timers' = timers \cup
                           {[id |-> s, attempt |-> reconnectAttemptsRef + 1,
                             delay |-> ReconnectDelay(reconnectAttemptsRef + 1)]}
                    /\ reconnectTimeoutRef' = s
               ELSE UNCHANGED <<timers, reconnectTimeoutRef>>
       ELSE UNCHANGED <<reconnectAttemptsRef, timers, reconnectTimeoutRef>>

\* ws.onclose of socket s with event.code = code.  The timer it schedules
\* is identified by s: a socket's close event fires once.  The timer keeps
\* its delay and the number of the attempt it stands for, which is the value
\* of the counter once incremented.
onclose(s, code) ==
    /\ isConnected' = FALSE
    /\ connectionStatus' = "disconnected"
    /\ IF code # NormalClosure /\ reconnectAttemptsRef < maxReconnectAttempts
       THEN /\ reconnectAttemptsRef' = reconnectAttemptsRef + 1
            /\ timers' = timers \cup
                   {[id |-> s, attempt |-> reconnectAttemptsRef + 1,
                     delay |-> ReconnectDelay(reconnectAttemptsRef + 1)]}
            /\ reconnectTimeoutRef' = s
       ELSE UNCHANGED <<reconnectAttemptsRef, timers, reconnectTimeoutRef>>

\* ws.onerror
onerror ==
    /\ connectionStatus' = "error"
    /\ error' = "WebSocket error occurred"

\* WebSocket.close(): starts the closing handshake of an open socket, aborts
\* a connecting one, and does nothing to a closing or closed one.
Close(s) ==
    IF sockets[s].readyState \in {"CONNECTING", "OPEN"}
    THEN [sockets EXCEPT ![s].readyState = "CLOSING"]
    ELSE sockets

\* disconnect()
disconnect ==
    /\ IF reconnectTimeoutRef # NoTimer
       THEN /\ timers' = {t \in timers : t.id # reconnectTimeoutRef}
            /\ reconnectTimeoutRef' = NoTimer
       ELSE UNCHANGED <<timers, reconnectTimeoutRef>>
    /\ IF wsRef # NoSocket
       THEN /\ sockets' = Close(wsRef)
            /\ wsRef' = NoSocket
       ELSE UNCHANGED <<sockets, wsRef>>
    /\ isConnected' = FALSE
    /\ connectionStatus' = "disconnected"
    /\ error' = Null

\* Whether a call of sendMessage ends by throwing to its caller, given
\* whether wsRef held an open socket: the send branch catches what send
\* throws, and the else branch sets the error state and returns.
sendMessageThrows(open) == FALSE

\* The record of a sendMessage call: the envelope (its data is the number
\* of the chunk it carries, 0 for an envelope without data), the socket in
\* wsRef, whether the envelope went on the wire, whether WebSocket.send
\* raised, whether the call threw, and the session status as of the call
\* (set by the caller's step before it).
SendRecord(message, sent, raised) ==
    [type |-> message.type, session_id |-> message.session_id,
     data |-> IF "data" \in DOMAIN message THEN message.data ELSE 0,
     socket |-> wsRef, sent |-> sent, raised |-> raised,
     threw |-> sendMessageThrows(sent), status |-> sessionStatus']

\* A variant of sendMessageWhen that keeps the envelopes it could not send
\* and writes the oldest of them ahead of the next envelope it sends;
\* C25_AtMostOnce distinguishes it from the code.
sendMessageFlushesUnsent(message, raises) ==
    LET unsent == {i \in DOMAIN sendLog :
                      /\ ~sendLog[i].sent
                      /\ \A k \in DOMAIN wire : wire[k].call # i}
        oldest == CHOOSE i \in unsent : \A j \in unsent : i <= j
        this   == [socket |-> wsRef, call |-> Len(sendLog) + 1]
    IN  IF IsOpen(wsRef) /\ ~raises
        THEN /\ sendLog' = Append(sendLog, SendRecord(message, TRUE, FALSE))
             /\ wire' = IF unsent = {}
                        THEN Append(wire, this)
                        ELSE wire \o <<[socket |-> wsRef, call |-> oldest], this>>
             /\ UNCHANGED error
        ELSE /\ sendLog' = Append(sendLog, SendRecord(message, FALSE, raises))
             /\ error' = IF raises THEN "Failed to send message"
                                   ELSE "WebSocket is not connected"
             /\ UNCHANGED wire

\* sendMessage(message) when WebSocket.send raises or not: constrains error,
\* sendLog and wire.  The call is numbered by its place in sendLog.
sendMessageWhen(message, raises) ==
    IF IsOpen(wsRef)
    THEN IF raises
         THEN /\ sendLog' = Append(sendLog, SendRecord(message, FALSE, TRUE))
              /\ error' = "Failed to send message"
              /\ UNCHANGED wire
         ELSE /\ sendLog' = Append(sendLog, SendRecord(message, TRUE, FALSE))
              /\ wire' = Append(wire, [socket |-> wsRef,
                                       call |-> Len(sendLog) + 1])
              /\ UNCHANGED error
    ELSE /\ sendLog' = Append(sendLog, SendRecord(message, FALSE, FALSE))
         /\ error' = "WebSocket is not connected"
         /\ UNCHANGED wire

\* sendMessage(message) in a browser: WebSocket.send on an open socket does
\* not raise, so the inner catch block is not entered.
sendMessage(message) == sendMessageWhen(message, FALSE)

(***************************************************************************)
(* The browser's socket and timer events, each running one handler.        *)
(***************************************************************************)

\* The opening handshake of socket s completes.
SocketOpens(s) ==
    /\ task = NoSocket
    /\ sockets[s].readyState = "CONNECTING"
    /\ sockets' = [sockets EXCEPT ![s] = Socket("OPEN", TRUE)]
    /\ onopen
    /\ UNCHANGED <<lastMessage, wsRef, reconnectTimeoutRef, timers, task, urlOk>>
    /\ UNCHANGED <<pageVars, sessVars, recVars, histVars>>

\* Socket s fails (handshake refused, network drop, close() on a socket
\* that never opened): the browser marks it closed and fires error; the
\* close event follows in the same task.
SocketFails(s) ==
    /\ task = NoSocket
    /\ sockets[s].readyState \in {"CONNECTING", "OPEN", "CLOSING"}
    /\ sockets' = [sockets EXCEPT ![s] = Socket("CLOSED", FALSE)]
    /\ onerror
    /\ task' = s
    /\ UNCHANGED <<isConnected, lastMessage, wsRef, reconnectTimeoutRef,
                   reconnectAttemptsRef, timers, urlOk>>
    /\ UNCHANGED <<pageVars, sessVars, recVars, histVars>>

\* The close event of the failed socket: abnormal closure.
SocketFailsClose ==
    /\ task # NoSocket
    /\ onclose(task, AbnormalClosure)
    /\ task' = NoSocket
    /\ UNCHANGED <<error, lastMessage, wsRef, sockets, urlOk>>
    /\ UNCHANGED <<pageVars, sessVars, recVars, histVars>>

\* Socket s closes cleanly: the server closes an open socket with a code of
\* its choice, or answers the close frame of a close(1000) on an open one.
SocketCloses(s, code) ==
    /\ task = NoSocket
    /\ \/ sockets[s].readyState = "OPEN" /\ code \in {NormalClosure, GoingAway}
       \/ sockets[s].readyState = "CLOSING" /\ sockets[s].established
            /\ code = NormalClosure
    /\ sockets' = [sockets EXCEPT ![s] = Socket("CLOSED", FALSE)]
    /\ onclose(s, code)
    /\ UNCHANGED <<error, lastMessage, wsRef, task, urlOk>>
    /\ UNCHANGED <<pageVars, sessVars, recVars, histVars>>

\* The reconnection timer t fires: connect(clientId).  limit bounds the
\* sockets of the run.
TimerFires(t, limit) ==
    /\ task = NoSocket
    /\ t \in timers
    /\ Len(sockets) < limit
    /\ timers' = timers \ {t}
    /\ connect
    /\ UNCHANGED <<isConnected, lastMessage, reconnectTimeoutRef,
                   reconnectAttemptsRef, task, urlOk>>
    /\ lastConnect' = "timer"
    /\ UNCHANGED <<pageVars, sessVars, recVars>>
    /\ UNCHANGED <<nConnects, nDisconnects, nPresses, nChunks, arrived,
                   delivered, statusTrace, callLog, sendLog, wire, lastCall>>

(***************************************************************************)
(* A consumer of the hook calling connect and disconnect at will.          *)
(***************************************************************************)
Connect(limit) ==
    /\ task = NoSocket
    /\ nConnects < MaxConnects
    /\ Len(sockets) < limit
    /\ connect
    /\ nConnects' = nConnects + 1
    /\ lastCall' = "connect"
    /\ lastConnect' = "call"
    /\ UNCHANGED <<isConnected, lastMessage, reconnectTimeoutRef,
                   reconnectAttemptsRef, timers, task, urlOk>>
    /\ UNCHANGED <<pageVars, sessVars, recVars>>
    /\ UNCHANGED <<nDisconnects, nPresses, nChunks, arrived, delivered,
                   statusTrace, callLog, sendLog, wire>>

Disconnect ==
    /\ task = NoSocket
    /\ nDisconnects < MaxDisconnects
    /\ disconnect
    /\ nDisconnects' = nDisconnects + 1
    /\ lastCall' = "disconnect"
    /\ UNCHANGED lastConnect
    /\ UNCHANGED <<lastMessage, reconnectAttemptsRef, task, urlOk>>
    /\ UNCHANGED <<pageVars, sessVars, recVars>>
    /\ UNCHANGED <<nConnects, nPresses, nChunks, arrived, delivered,
                   statusTrace, callLog, sendLog, wire>>


(***************************************************************************)
(* Inbound frames.  A frame is the text of a WebSocket message; Parse is   *)
(* what JSON.parse followed by the reads of data.type, data.text,          *)
(* data.status, data.message and data.insights yield for it.  A field the  *)
(* JSON object does not have reads as Null (undefined).                    *)
(***************************************************************************)
FrameStatus == "{\"type\":\"ai_status\",\"status\":\"analyzing\"}"
FrameHello == "{\"type\":\"transcript\",\"text\":\"hello\"}"
FrameWorld == "{\"type\":\"transcript\",\"text\":\"world\"}"
FrameInsights == "{\"type\":\"insights\",\"insights\":{\"sentiment\":\"positive\"}}"
FrameInsightsNeg == "{\"type\":\"insights\",\"insights\":{\"sentiment\":\"negative\"}}"
FrameError == "{\"type\":\"error\",\"message\":\"boom\"}"
FramePong == "{\"type\":\"pong\"}"
FrameGarbage == "not json"

Frames == {FrameStatus, FrameHello, FrameWorld, FrameInsights, FrameError,
           FramePong, FrameGarbage}

\* The frames of a run that exercises the insight history.
InsightFrames == {FrameInsights, FrameInsightsNeg}

Envelope(t, x, st, m, i) ==
    [ok |-> TRUE, type |-> t, text |-> x, status |-> st, message |-> m, insights |-> i]

\* JSON.parse(lastMessage): ok = FALSE stands for the SyntaxError it throws.
Parse(frame) ==
    CASE frame = FrameStatus -> Envelope("ai_status", Null, "analyzing", Null, Null)
      [] frame = FrameHello -> Envelope("transcript", "hello", Null, Null, Null)
      [] frame = FrameWorld -> Envelope("transcript", "world", Null, Null, Null)
      [] frame = FrameInsights -> Envelope("insights", Null, Null, Null, "positive")
      [] frame = FrameInsightsNeg -> Envelope("insights", Null, Null, Null, "negative")
      [] frame = FrameError -> Envelope("error", Null, Null, "boom", Null)
      [] frame = FramePong -> Envelope("pong", Null, Null, Null, Null)
      [] OTHER -> [ok |-> FALSE, type |-> Null, text |-> Null, status |-> Null,
                   message |-> Null, insights |-> Null]

\* A frame arrives on the open socket s: ws.onmessage.  limit bounds the
\* frames of the run.
FrameArrives(s, frame, limit) ==
    /\ task = NoSocket
    /\ sockets[s].readyState = "OPEN"
    /\ Len(arrived) < limit
    /\ onmessage(frame)
    /\ arrived' = Append(arrived, frame)
    /\ UNCHANGED <<isConnected, connectionStatus, error, wsRef,
                   reconnectTimeoutRef, reconnectAttemptsRef>>
    /\ UNCHANGED <<envVars, pageVars, sessVars, recVars>>
    /\ UNCHANGED <<nConnects, nDisconnects, nPresses, nChunks, delivered,
                   statusTrace, callLog, sendLog, wire, lastCall, lastConnect>>

(***************************************************************************)
(* CallsPage and InsightsPanel: the effects on [lastMessage].              *)
(***************************************************************************)

\* CallsPage, useEffect(..., [lastMessage]): switch (data.type), which has
\* no default case.
RouterDispatch(data) ==
    CASE data.type = "insights" ->
           /\ toasts' = Append(toasts, "success: New insights generated!")
           /\ UNCHANGED <<transcripts, aiStatus>>
      [] data.type = "transcript" ->
           /\ transcripts' = Append(transcripts, data.text)
           /\ UNCHANGED <<aiStatus, toasts>>
      [] data.type = "ai_status" ->
           /\ aiStatus' = data.status
           /\ UNCHANGED <<transcripts, toasts>>
      [] data.type = "error" ->
           /\ toasts' = Append(toasts,
                  IF data.message # Null THEN "error: " \o data.message
                  ELSE "error: An error occurred")
           /\ UNCHANGED <<transcripts, aiStatus>>
      [] OTHER -> UNCHANGED <<transcripts, aiStatus, toasts>>

\* A variant of KeepLast that keeps one item more, slice(0, 10);
\* C17_InsightHistoryBounded distinguishes it from the code.
KeepLastEleven(newInsight, prev) ==
    <<newInsight>> \o SubSeq(prev, 1, Min(Len(prev), 10))

\* setInsights(prev => [newInsight, ...prev.slice(0, 9)])
KeepLast(newInsight, prev) ==
    <<newInsight>> \o SubSeq(prev, 1, Min(Len(prev), 9))

\* InsightsPanel, useEffect(..., [lastMessage]).  It runs before the
\* page's effect (a child's effects run first) and logs its own parse error.
PanelEffect(message, log) ==
    LET data == Parse(message) IN
    IF ~data.ok
    THEN [insights |-> insights,
          log |-> Append(log, "Failed to parse insights message")]
    ELSE IF data.type = "insights" /\ data.insights # Null
         THEN [insights |-> KeepLast(data.insights, insights), log |-> log]
         ELSE [insights |-> insights, log |-> log]

\* The commit that follows a change of lastMessage: both effects run when
\* the value differs from the one of the previous commit, and each does
\* nothing for a falsy value.
LastMessageEffect ==
    /\ task = NoSocket
    /\ mounted
    /\ lastMessage # effectDep
    /\ effectDep' = lastMessage
    /\ IF lastMessage = Null
       THEN UNCHANGED <<transcripts, aiStatus, toasts, parseErrors, insights,
                        delivered>>
       ELSE LET panel == PanelEffect(lastMessage, parseErrors) IN
            LET data == Parse(lastMessage) IN
            /\ insights' = panel.insights
            /\ delivered' = Append(delivered, lastMessage)
            /\ IF ~data.ok
               THEN /\ parseErrors' =
                          Append(panel.log, "Failed to parse WebSocket message")
                    /\ UNCHANGED <<transcripts, aiStatus, toasts>>
               ELSE /\ parseErrors' = panel.log
                    /\ RouterDispatch(data)
    /\ UNCHANGED <<wsVars, envVars, sessVars, recVars>>
    /\ UNCHANGED <<mounted, sessionId>>
    /\ UNCHANGED <<nConnects, nDisconnects, nPresses, nChunks, arrived,
                   statusTrace, callLog, sendLog, wire, lastCall, lastConnect>>

(***************************************************************************)
(* CallsPage: the mount effect and its cleanup.                            *)
(***************************************************************************)

\* useEffect(() => { setSessionId(`session_${Date.now()}`); connect(clientId) })
\* The session id is numbered by the run of the effect that generated it.
\* limit bounds the sockets of the run.
MountEffect(limit) ==
    /\ task = NoSocket
    /\ ~mounted
    /\ nConnects < MaxConnects
    /\ Len(sockets) < limit
    /\ mounted' = TRUE
    /\ sessionId' = nConnects + 1
    /\ connect
    /\ nConnects' = nConnects + 1
    /\ lastCall' = "connect"
    /\ lastConnect' = "call"
    /\ UNCHANGED <<isConnected, lastMessage, reconnectTimeoutRef,
                   reconnectAttemptsRef, timers, task, urlOk>>
    /\ UNCHANGED <<transcripts, aiStatus, toasts, effectDep, parseErrors, insights>>
    /\ UNCHANGED <<sessVars, recVars>>
    /\ UNCHANGED <<nDisconnects, nPresses, nChunks, arrived, delivered,
                   statusTrace, callLog, sendLog, wire>>

\* return () => { disconnect() }: on unmount, and between the two runs of
\* the mount effect when React re-runs it.  useWebSocket's own unmount
\* cleanup calls disconnect() once more, which then changes nothing.
Cleanup ==
    /\ task = NoSocket
    /\ mounted
    /\ nDisconnects < MaxDisconnects
    /\ mounted' = FALSE
    /\ disconnect
    /\ nDisconnects' = nDisconnects + 1
    /\ lastCall' = "disconnect"
    /\ UNCHANGED lastConnect
    /\ UNCHANGED <<lastMessage, reconnectAttemptsRef, task, urlOk>>
    /\ UNCHANGED <<sessionId, transcripts, aiStatus, toasts, effectDep,
                   parseErrors, insights>>
    /\ UNCHANGED <<sessVars, recVars>>
    /\ UNCHANGED <<nConnects, nPresses, nChunks, arrived, delivered,
                   statusTrace, callLog, sendLog, wire>>

(***************************************************************************)
(* useCallSession                                                          *)
(***************************************************************************)

\* setSessionStatus(v), with the history of the values taken.
SetSessionStatus(v) ==
    /\ sessionStatus' = v
    /\ statusTrace' = IF sessionStatus = v THEN statusTrace
                      ELSE Append(statusTrace, v)

\* startSessionMutation.mutationFn up to its await: the request is posted.
startSessionMutationFn(sid, n) ==
    /\ SetSessionStatus("starting")
    /\ requests' = requests \cup {[kind |-> "start", session_id |-> sid, n |-> n]}
    /\ UNCHANGED <<sessionData, sessError>>

\* startSessionMutation.onSuccess / onError
startSessionSettled(sid, ok) ==
    IF ok
    THEN /\ sessionData' = sid
         /\ SetSessionStatus("active")
         /\ sessError' = Null
    ELSE /\ SetSessionStatus("error")
         /\ sessError' = "Failed to start session"
         /\ UNCHANGED sessionData

\* endSessionMutation.mutationFn up to its await
endSessionMutationFn(sid, n) ==
    /\ SetSessionStatus("ending")
    /\ requests' = requests \cup {[kind |-> "end", session_id |-> sid, n |-> n]}
    /\ UNCHANGED <<sessionData, sessError>>

\* A faulty variant of endSessionSettled that forgets setSessionStatus('idle')
\* on success; C9_StartThenEnd distinguishes it from the code.
endSessionSettledKeepsStatus(ok) ==
    IF ok
    THEN /\ sessionData' = NoSession
         /\ UNCHANGED <<sessionStatus, statusTrace>>
         /\ sessError' = Null
    ELSE /\ SetSessionStatus("error")
         /\ sessError' = "Failed to end session"
         /\ UNCHANGED sessionData

\* endSessionMutation.onSuccess / onError
endSessionSettled(ok) ==
    IF ok
    THEN /\ sessionData' = NoSession
         /\ SetSessionStatus("idle")
         /\ sessError' = Null
    ELSE /\ SetSessionStatus("error")
         /\ sessError' = "Failed to end session"
         /\ UNCHANGED sessionData

\* Whether the promise of startSession(sessionId) rejects when the request
\* has the outcome ok: its catch block is empty, so it never does.
startSessionRejects(ok) == FALSE

\* A variant of endSessionRejects in which endSession lets the rejection of
\* the request through to its caller; C11_FailedEndStillSendsCallEnd
\* distinguishes it from the code.
endSessionPropagates(ok) == ~ok

\* The same for endSession(sessionId).
endSessionRejects(ok) == FALSE

(***************************************************************************)
(* CallInterface: the Start/End button and the recorder.                   *)
(***************************************************************************)

\* useEffect(..., [isCallActive]) for the value active of isCallActive:
\* startAudioRecording() up to its await, or stopAudioRecording().
RecordingEffect(active) ==
    IF active /\ ~isRecording
    THEN /\ acquiring' = acquiring + 1
         /\ UNCHANGED <<isRecording, recorders, mediaRecorderRef, flushing>>
    ELSE IF ~active /\ isRecording
         THEN /\ IF mediaRecorderRef
                 THEN /\ recorders' = recorders - 1
                      /\ flushing' = flushing + 1
                 ELSE UNCHANGED <<recorders, flushing>>
              /\ mediaRecorderRef' = FALSE
              /\ isRecording' = FALSE
              /\ UNCHANGED acquiring
         ELSE UNCHANGED <<isRecording, acquiring, recorders, mediaRecorderRef,
                          flushing>>

\* The button while it shows Start: CallInterface.handleStartCall, then
\* CallsPage.handleStartCall up to the await of startSession.  limit bounds
\* the presses of the run.
PressStart(limit) ==
    /\ task = NoSocket
    /\ mounted
    /\ isConnected
    /\ ~isCallActive
    /\ nPresses < limit
    /\ isCallActive' = TRUE
    /\ nPresses' = nPresses + 1
    /\ callLog' = Append(callLog, "start")
    /\ IF sessionId # NoSession
       THEN startSessionMutationFn(sessionId, nPresses + 1)
       ELSE UNCHANGED <<sessVars, statusTrace>>
    /\ RecordingEffect(TRUE)
    /\ UNCHANGED readers
    /\ UNCHANGED <<wsVars, envVars, pageVars>>
    /\ UNCHANGED <<nConnects, nDisconnects, nChunks, arrived, delivered,
                   sendLog, wire, lastCall, lastConnect>>

\* The button while it shows End: CallInterface.handleEndCall, then
\* CallsPage.handleEndCall up to the await of endSession.  limit bounds the
\* presses of the run.
PressEnd(limit) ==
    /\ task = NoSocket
    /\ mounted
    /\ isConnected
    /\ isCallActive
    /\ nPresses < limit
    /\ isCallActive' = FALSE
    /\ nPresses' = nPresses + 1
    /\ callLog' = Append(callLog, "end")
    /\ IF sessionId # NoSession
       THEN endSessionMutationFn(sessionId, nPresses + 1)
       ELSE UNCHANGED <<sessVars, statusTrace>>
    /\ RecordingEffect(FALSE)
    /\ UNCHANGED readers
    /\ UNCHANGED <<wsVars, envVars, pageVars>>
    /\ UNCHANGED <<nConnects, nDisconnects, nChunks, arrived, delivered,
                   sendLog, wire, lastCall, lastConnect>>

\* The response to the session-creation request r arrives: the mutation's
\* callbacks, then the rest of CallsPage.handleStartCall.
StartResponse(r, ok) ==
    /\ task = NoSocket
    /\ r \in requests
    /\ r.kind = "start"
    /\ requests' = requests \ {r}
    /\ startSessionSettled(r.session_id, ok)
    /\ callLog' = Append(callLog, IF ok THEN "start_ok" ELSE "start_failed")
    /\ IF startSessionRejects(ok)
       THEN /\ toasts' = Append(toasts, "error: Failed to start call session")
            /\ UNCHANGED <<aiStatus, error, sendLog, wire>>
       ELSE /\ sendMessage([type |-> "call_start", session_id |-> r.session_id])
            /\ IF sendMessageThrows(IsOpen(wsRef))
               THEN /\ toasts' = Append(toasts, "error: Failed to start call session")
                    /\ UNCHANGED aiStatus
               ELSE /\ aiStatus' = "analyzing"
                    /\ toasts' = Append(toasts, "success: Call session started!")
    /\ UNCHANGED <<isConnected, connectionStatus, lastMessage, wsRef,
                   reconnectTimeoutRef, reconnectAttemptsRef>>
    /\ UNCHANGED <<envVars, recVars>>
    /\ UNCHANGED <<mounted, sessionId, transcripts, effectDep, parseErrors, insights>>
    /\ UNCHANGED <<nConnects, nDisconnects, nPresses, nChunks, arrived,
                   delivered, lastCall, lastConnect>>

\* The response to the session-termination request r arrives: the
\* mutation's callbacks, then the rest of CallsPage.handleEndCall.
EndResponse(r, ok) ==
    /\ task = NoSocket
    /\ r \in requests
    /\ r.kind = "end"
    /\ requests' = requests \ {r}
    /\ endSessionSettled(ok)
    /\ callLog' = Append(callLog, IF ok THEN "end_ok" ELSE "end_failed")
    /\ IF endSessionRejects(ok)
       THEN /\ toasts' = Append(toasts, "error: Failed to end call session")
            /\ UNCHANGED <<aiStatus, error, sendLog, wire>>
       ELSE /\ sendMessage([type |-> "call_end", session_id |-> r.session_id])
            /\ IF sendMessageThrows(IsOpen(wsRef))
               THEN /\ toasts' = Append(toasts, "error: Failed to end call session")
                    /\ UNCHANGED aiStatus
               ELSE /\ aiStatus' = "idle"
                    /\ toasts' = Append(toasts, "success: Call session ended!")
    /\ UNCHANGED <<isConnected, connectionStatus, lastMessage, wsRef,
                   reconnectTimeoutRef, reconnectAttemptsRef>>
    /\ UNCHANGED <<envVars, recVars>>
    /\ UNCHANGED <<mounted, sessionId, transcripts, effectDep, parseErrors, insights>>
    /\ UNCHANGED <<nConnects, nDisconnects, nPresses, nChunks, arrived,
                   delivered, lastCall, lastConnect>>

\* navigator.mediaDevices.getUserMedia settles: with a stream the recorder
\* starts (the rest of startAudioRecording), without one the catch block
\* alerts.
GetUserMediaSettles(granted) ==
    /\ task = NoSocket
    /\ acquiring > 0
    /\ acquiring' = acquiring - 1
    /\ IF granted
       THEN /\ recorders' = recorders + 1
            /\ mediaRecorderRef' = TRUE
            /\ isRecording' = TRUE
       ELSE UNCHANGED <<recorders, mediaRecorderRef, isRecording>>
    /\ UNCHANGED <<isCallActive, flushing, readers>>
    /\ UNCHANGED <<wsVars, envVars, pageVars, sessVars, histVars>>

\* mediaRecorder.ondataavailable with a non-empty blob, from a running
\* recorder (every second) or as the last event of a stopped one: a
\* FileReader starts on the chunk.  limit bounds the chunks of the run.
DataAvailable(last, limit) ==
    /\ task = NoSocket
    /\ nChunks < limit
    /\ IF last
       THEN /\ flushing > 0
            /\ flushing' = flushing - 1
       ELSE /\ recorders > 0
            /\ UNCHANGED flushing
    /\ nChunks' = nChunks + 1
    /\ readers' = readers \cup {nChunks + 1}
    /\ UNCHANGED <<isCallActive, isRecording, acquiring, recorders, mediaRecorderRef>>
    /\ UNCHANGED <<wsVars, envVars, pageVars, sessVars>>
    /\ UNCHANGED <<nConnects, nDisconnects, nPresses, arrived, delivered,
                   statusTrace, callLog, sendLog, wire, lastCall, lastConnect>>

\* CallsPage.handleAudioChunk(audioData)
handleAudioChunk(chunk) ==
    IF sessionId = NoSession
    THEN UNCHANGED <<error, sendLog, wire>>
    ELSE sendMessage([type |-> "audio_chunk", session_id |-> sessionId,
                      data |-> chunk])

\* reader.onloadend of chunk c: onAudioChunk(audioData).
ReaderLoadEnd(c) ==
    /\ task = NoSocket
    /\ c \in readers
    /\ readers' = readers \ {c}
    /\ UNCHANGED <<envVars, pageVars, sessVars>>
    /\ handleAudioChunk(c)
    /\ UNCHANGED <<isCallActive, isRecording, acquiring, recorders,
                   mediaRecorderRef, flushing>>
    /\ UNCHANGED <<isConnected, connectionStatus, lastMessage, wsRef,
                   reconnectTimeoutRef, reconnectAttemptsRef>>
    /\ UNCHANGED <<nConnects, nDisconnects, nPresses, nChunks, arrived,
                   delivered, statusTrace, callLog, lastCall, lastConnect>>

(***************************************************************************)
(* The system: the page with its hooks, the server and the browser.        *)
(***************************************************************************)
Next ==
    \/ MountEffect(MaxSockets)
    \/ \E s \in SocketIds : SocketOpens(s)
    \/ \E s \in SocketIds : SocketFails(s)
    \/ SocketFailsClose
    \/ \E s \in SocketIds, code \in {NormalClosure, GoingAway} : SocketCloses(s, code)
    \/ \E t \in timers : TimerFires(t, MaxSockets)
    \/ PressStart(MaxPresses)
    \/ PressEnd(MaxPresses)
    \/ \E r \in requests, ok \in BOOLEAN : StartResponse(r, ok)
    \/ \E r \in requests, ok \in BOOLEAN : EndResponse(r, ok)
    \/ \E granted \in BOOLEAN : GetUserMediaSettles(granted)
    \/ \E last \in BOOLEAN : DataAvailable(last, MaxChunks)
    \/ \E c \in readers : ReaderLoadEnd(c)

Spec == Init /\ [][Next]_vars

\* The transport as the page drives it: connect on mount, disconnect on
\* cleanup, and the socket and timer events.
NextTransport ==
    \/ MountEffect(MaxSocketsT)
    \/ Cleanup
    \/ \E s \in SocketIds : SocketOpens(s)
    \/ \E s \in SocketIds : SocketFails(s)
    \/ SocketFailsClose
    \/ \E s \in SocketIds, code \in {NormalClosure, GoingAway} : SocketCloses(s, code)
    \/ \E t \in timers : TimerFires(t, MaxSocketsT)

SpecTransport == Init /\ [][NextTransport]_vars

\* The hook under any use of its connect and disconnect.
NextApi ==
    \/ Connect(MaxSocketsA)
    \/ Disconnect
    \/ \E s \in SocketIds : SocketOpens(s)
    \/ \E s \in SocketIds : SocketFails(s)
    \/ SocketFailsClose
    \/ \E s \in SocketIds, code \in {NormalClosure, GoingAway} : SocketCloses(s, code)
    \/ \E t \in timers : TimerFires(t, MaxSocketsA)

SpecApi == Init /\ [][NextApi]_vars

\* The router on one connection.
NextRouter ==
    \/ MountEffect(MaxSockets)
    \/ \E s \in SocketIds : SocketOpens(s)
    \/ \E s \in SocketIds, frame \in Frames : FrameArrives(s, frame, MaxFrames)
    \/ LastMessageEffect

SpecRouter == Init /\ [][NextRouter]_vars

\* The insight history: insight frames of two payloads arriving on the
\* open socket, and the effects on [lastMessage].
NextPanel ==
    \/ MountEffect(MaxSockets)
    \/ \E s \in SocketIds : SocketOpens(s)
    \/ \E s \in SocketIds, frame \in InsightFrames :
           FrameArrives(s, frame, MaxFramesP)
    \/ LastMessageEffect

SpecPanel == Init /\ [][NextPanel]_vars

\* Successive calls on one page: the button pressed again and again on a
\* connected page, and the responses to the session requests.
NextCalls ==
    \/ MountEffect(MaxSockets)
    \/ \E s \in SocketIds : SocketOpens(s)
    \/ PressStart(MaxPressesC)
    \/ PressEnd(MaxPressesC)
    \/ \E r \in requests, ok \in BOOLEAN : StartResponse(r, ok)
    \/ \E r \in requests, ok \in BOOLEAN : EndResponse(r, ok)

SpecCalls == Init /\ [][NextCalls]_vars

\* A component calls sendMessage with an envelope of its session while
\* WebSocket.send raises or not.  limit bounds the calls of the run.
SendMessage(type, raises, limit) ==
    /\ task = NoSocket
    /\ Len(sendLog) < limit
    /\ UNCHANGED <<envVars, pageVars, sessVars, recVars>>
    /\ sendMessageWhen([type |-> type, session_id |-> sessionId], raises)
    /\ UNCHANGED <<isConnected, connectionStatus, lastMessage, wsRef,
                   reconnectTimeoutRef, reconnectAttemptsRef>>
    /\ UNCHANGED <<nConnects, nDisconnects, nPresses, nChunks, arrived,
                   delivered, statusTrace, callLog, lastCall, lastConnect>>

\* The channel under sendMessage calls that WebSocket.send may fail, with
\* the socket and timer events.
NextSend ==
    \/ MountEffect(MaxSockets)
    \/ \E s \in SocketIds : SocketOpens(s)
    \/ \E s \in SocketIds : SocketFails(s)
    \/ SocketFailsClose
    \/ \E s \in SocketIds, code \in {NormalClosure, GoingAway} : SocketCloses(s, code)
    \/ \E t \in timers : TimerFires(t, MaxSockets)
    \/ \E type \in {"call_start", "call_end"}, raises \in BOOLEAN :
           SendMessage(type, raises, MaxSends)

SpecSend == Init /\ [][NextSend]_vars

\* The hook under explicit connect, disconnect and sendMessage calls, with
\* enough sockets for the retry budget to run out before a call.
NextBudget ==
    \/ Connect(MaxSocketsB)
    \/ Disconnect
    \/ \E s \in SocketIds : SocketOpens(s)
    \/ \E s \in SocketIds : SocketFails(s)
    \/ SocketFailsClose
    \/ \E s \in SocketIds, code \in {NormalClosure, GoingAway} : SocketCloses(s, code)
    \/ \E t \in timers : TimerFires(t, MaxSocketsB)
    \/ SendMessage("call_start", FALSE, MaxSendsB)

SpecBudget == Init /\ [][NextBudget]_vars

(***************************************************************************)
(* Properties.                                                             *)
(***************************************************************************)

\* The entries of the sequence seq that satisfy Test.
Filter(seq, Test(_)) == SelectSeq(seq, Test)

\* The envelopes put on the wire, in order.
Wire == Filter(sendLog, LAMBDA e : e.sent)

\* The types of a sequence of envelopes.
Types(seq) == [i \in DOMAIN seq |-> seq[i].type]

\* The envelopes of type t put on the wire.
WireOf(t) == Filter(sendLog, LAMBDA e : e.sent /\ e.type = t)

\* C1: after a call of disconnect(), for as long as connect() is not called
\* again explicitly, no reconnection timer is pending, no socket has been
\* created (wsRef, which connect sets, stays empty) and, between tasks,
\* connectionStatus is 'disconnected'.
C1_DisconnectIsTerminal ==
    lastCall = "disconnect" =>
        /\ timers = {}
        /\ wsRef = NoSocket
        /\ (task = NoSocket => connectionStatus = "disconnected")

\* One explicit connect, no disconnect, and the retry budget is used up:
\* the counter stands at its maximum, the last timer has fired and every
\* socket has closed.
RetriesExhausted ==
    /\ task = NoSocket
    /\ nConnects = 1
    /\ nDisconnects = 0
    /\ reconnectAttemptsRef = maxReconnectAttempts
    /\ timers = {}
    /\ Len(sockets) > maxReconnectAttempts
    /\ \A s \in SocketIds : sockets[s].readyState = "CLOSED"

\* C2: the attempt counter never exceeds 5, and once 5 consecutive
\* reconnection attempts have failed no further attempt is pending and
\* connectionStatus shows the failure state.
C2_FiveFailuresReachFailed ==
    /\ reconnectAttemptsRef <= maxReconnectAttempts
    /\ RetriesExhausted => connectionStatus = "error"

\* C3: an explicit connect(clientId) while the channel is connecting or
\* connected creates no socket, keeps the socket in wsRef and leaves
\* connectionStatus and isConnected as they are.
C3_ConnectIdempotent ==
    [][(nConnects' # nConnects /\ connectionStatus \in {"connecting", "connected"}) =>
          /\ sockets' = sockets
          /\ wsRef' = wsRef
          /\ connectionStatus' = connectionStatus
          /\ isConnected' = isConnected]_vars

\* C4: every sendMessage call made while wsRef held no open socket put
\* nothing on the wire and ended by raising the failure to its caller;
\* every call made while it held one put one frame on the wire and
\* returned.
C4_NotConnectedReported ==
    \A i \in DOMAIN sendLog :
        IF sendLog[i].sent THEN ~sendLog[i].threw ELSE sendLog[i].threw

\* The well-formed frames of a sequence of frames.
WellFormed(seq) == Filter(seq, LAMBDA f : Parse(f).ok)

\* The effects have run for the current value of lastMessage.
RouterIdle == lastMessage = effectDep

\* C5: once the router has caught up, the well-formed frames it has
\* processed are the well-formed frames that arrived, each once and in
\* arrival order.
C5_ExactlyOnceInOrder ==
    RouterIdle => WellFormed(delivered) = WellFormed(arrived)

\* The slot of the envelope data receives it in this step and the other
\* slots stay as they are; an envelope of another type is received by some
\* slot.
Dispatched(data) ==
    CASE data.type = "transcript" ->
           /\ transcripts' = Append(transcripts, data.text)
           /\ UNCHANGED <<aiStatus, insights>>
      [] data.type = "ai_status" ->
           /\ aiStatus' = data.status
           /\ UNCHANGED <<transcripts, insights>>
      [] data.type = "insights" ->
           /\ insights' # insights
           /\ UNCHANGED <<transcripts, aiStatus>>
      [] data.type = "error" ->
           /\ toasts' # toasts
           /\ UNCHANGED <<transcripts, aiStatus, insights>>
      [] OTHER ->
           <<transcripts, aiStatus, toasts, insights, parseErrors>>' #
               <<transcripts, aiStatus, toasts, insights, parseErrors>>

\* C6: every parsed envelope the router processes is handed to the slot of
\* its type, and an envelope of an unknown type to a catch-all slot.
C6_DispatchedToItsSlot ==
    [][(delivered' # delivered /\ Parse(lastMessage).ok) =>
          Dispatched(Parse(lastMessage))]_vars

\* The parse errors the page's router has reported.
RouterParseErrors ==
    Filter(parseErrors, LAMBDA e : e = "Failed to parse WebSocket message")

\* C7: once the router has caught up, it has reported one parse error for
\* each malformed frame that arrived.
C7_OneErrorPerMalformedFrame ==
    RouterIdle =>
        Len(RouterParseErrors) = Len(Filter(arrived, LAMBDA f : ~Parse(f).ok))

\* C8: every audio_chunk envelope on the wire was handed over while the
\* session status was 'active'.
C8_NoAudioUnlessActive ==
    \A i \in DOMAIN sendLog :
        (sendLog[i].type = "audio_chunk" /\ sendLog[i].sent) =>
            sendLog[i].status = "active"

\* Start was pressed, its request succeeded, then End was pressed and its
\* request succeeded, and wsRef held an open socket when each of the two
\* control envelopes was handed to sendMessage.
StartedThenEnded ==
    /\ callLog = <<"start", "start_ok", "end", "end_ok">>
    /\ \A i \in DOMAIN sendLog :
           sendLog[i].type \in {"call_start", "call_end"} => sendLog[i].sent

\* C9: after Start then End with both requests succeeding on a connected
\* channel, the session status has passed through idle, starting, active,
\* ending, idle, and the wire carries one call_start and then one call_end
\* of the session.
C9_StartThenEnd ==
    StartedThenEnded =>
        /\ statusTrace = <<"idle", "starting", "active", "ending", "idle">>
        /\ Types(Filter(Wire, LAMBDA e : e.type # "audio_chunk")) =
               <<"call_start", "call_end">>
        /\ \A i \in DOMAIN Wire : Wire[i].session_id = sessionId

\* C9 witness: the scenario has run to its end with a chunk in between.
C9_Witness ==
    /\ StartedThenEnded
    /\ sessionStatus = "idle"
    /\ Len(WireOf("call_end")) = 1
    /\ Len(WireOf("audio_chunk")) > 0

\* The last entry of the sequence seq is x.
EndsWith(seq, x) == seq # <<>> /\ seq[Len(seq)] = x

\* C10: right after the session-creation request has failed, the status
\* is 'error', the caller has been told of the failure, and the channel
\* has been handed a call_start only for the requests that succeeded.
C10_FailedStartSendsNothing ==
    EndsWith(callLog, "start_failed") =>
        /\ sessionStatus = "error"
        /\ EndsWith(toasts, "error: Failed to start call session")
        /\ Len(Filter(sendLog, LAMBDA e : e.type = "call_start")) =
               Len(Filter(callLog, LAMBDA x : x = "start_ok"))


\* The number of entries of the sequence seq that are in the set S.
Count(seq, S) == Len(Filter(seq, LAMBDA x : x \in S))

\* The calls of sendMessage with an envelope of type t.
HandedOf(t) == Filter(sendLog, LAMBDA e : e.type = t)

\* C11: right after the session-termination request has failed, the status
\* is 'error' and the channel has been handed one call_end, carrying the
\* session's id, for each termination request that was answered.
C11_FailedEndStillSendsCallEnd ==
    EndsWith(callLog, "end_failed") =>
        /\ sessionStatus = "error"
        /\ Len(HandedOf("call_end")) = Count(callLog, {"end_ok", "end_failed"})
        /\ \A i \in DOMAIN HandedOf("call_end") :
               HandedOf("call_end")[i].session_id = sessionId

\* C11 witness: a termination request has failed after a started call.
C11_Witness ==
    /\ callLog = <<"start", "start_ok", "end", "end_failed">>
    /\ Len(HandedOf("call_end")) = 1


\* C12: the session status is 'active' only while the channel is connected.
C12_ActiveOnlyWhileConnected ==
    sessionStatus = "active" =>
        isConnected /\ connectionStatus = "connected"


\* C13: the delay of the timer of the n-th consecutive reconnection attempt,
\* n in 1..5, is min(1000 * 2^(n-1), 30000) ms.
C13_DelaySchedule ==
    \A t \in timers :
        /\ t.attempt \in 1..maxReconnectAttempts
        /\ t.delay = Min(1000 * 2^(t.attempt - 1), 30000)


\* Some socket goes from connecting to open in this step.
SomeSocketOpens ==
    \E s \in SocketIds :
        /\ sockets[s].readyState = "CONNECTING"
        /\ sockets'[s].readyState = "OPEN"

UnrequestedClosure ==
    /\ wsRef # NoSocket
    /\ task' = NoSocket
    /\ \/ /\ task = NoSocket
          /\ sockets[wsRef].readyState = "OPEN"
          /\ sockets'[wsRef].readyState = "CLOSED"
       \/ task = wsRef

\* An explicit connect() ends in its catch block in this step.
ConnectThrows == ~urlOk /\ nConnects' = nConnects + 1

\* C15: a closure that disconnect() did not ask for, whatever its close
\* code, and a connect() that fails by exception each schedule one
\* reconnection timer while the attempt counter is below 5.
C15_EveryUnrequestedClosureRetries ==
    [][((UnrequestedClosure \/ ConnectThrows)
           /\ reconnectAttemptsRef < maxReconnectAttempts) =>
          Cardinality(timers' \ timers) = 1]_vars


\* The socket s is connecting or open.
Live(s) == s # NoSocket /\ sockets[s].readyState \in {"CONNECTING", "OPEN"}

\* A reconnection timer scheduled by the close handler of a socket older
\* than the live socket in wsRef fires in this step and creates a socket.
StaleTimerCreatesSocket ==
    \E t \in timers \ timers' :
        /\ Len(sockets') > Len(sockets)
        /\ Live(wsRef)
        /\ t.id < wsRef

\* C16: a reconnection timer of an older connection attempt never creates a
\* socket while wsRef holds a fresher live one, so wsRef keeps referring to
\* the fresher socket.
C16_NoStaleReconnect ==
    [][~StaleTimerCreatesSocket]_vars


\* The insight payloads the panel's effect has been run for, oldest first.
DeliveredInsights ==
    LET fs == Filter(delivered, LAMBDA f : Parse(f).type = "insights")
    IN  [i \in DOMAIN fs |-> Parse(fs[i]).insights]

\* C17: the insight history holds the most recently delivered insight
\* payloads, newest first, and at most 10 of them: the 11th evicts the
\* oldest.
C17_InsightHistoryBounded ==
    /\ Len(insights) = Min(10, Len(DeliveredInsights))
    /\ \A i \in DOMAIN insights :
           insights[i] = DeliveredInsights[Len(DeliveredInsights) - i + 1]

\* C17 witness: an 11th insight payload has been delivered and has evicted
\* the first.
C17_Witness ==
    /\ Len(DeliveredInsights) = 11
    /\ Len(insights) = 10
    /\ insights[10] = DeliveredInsights[2]


\* The changes of connectionStatus from a to b that the channel's state
\* machine has, for the step being taken: to connecting from disconnected,
\* or from connected while retries remain; to connected from connecting; to
\* disconnected by an explicit disconnect(); to the failure state once the
\* retry budget is used up.
AllowedStatusChange(a, b) ==
    \/ a = b
    \/ a = "disconnected" /\ b = "connecting"
    \/ a = "connecting" /\ b = "connected"
    \/ /\ a \in {"connecting", "connected"}
       /\ b = "disconnected"
       /\ nDisconnects' = nDisconnects + 1
    \/ /\ a = "connected"
       /\ b = "connecting"
       /\ reconnectAttemptsRef < maxReconnectAttempts
    \/ b = "error" /\ reconnectAttemptsRef >= maxReconnectAttempts

\* C18: connectionStatus changes only along the transitions of the
\* channel's state machine; in particular it does not become 'error' while
\* reconnection attempts remain.
C18_StatusTransitions ==
    [][AllowedStatusChange(connectionStatus, connectionStatus')]_vars


\* The changes of the session status from a to b that the session's state
\* machine has.
AllowedSessionChange(a, b) ==
    \/ a = b
    \/ a = "idle" /\ b = "starting"
    \/ a = "starting" /\ b \in {"active", "error"}
    \/ a = "active" /\ b = "ending"
    \/ a = "ending" /\ b \in {"idle", "error"}

\* C19: the session status changes only along the transitions of the
\* session's state machine: it becomes 'starting' only from 'idle' and
\* 'ending' only from 'active'.
C19_SessionTransitions ==
    [][AllowedSessionChange(sessionStatus, sessionStatus')]_vars


\* C20: the session-creation requests of distinct Start presses carry
\* distinct session ids, and so do their call_start envelopes.
C20_SessionIdPerCall ==
    /\ \A r1, r2 \in requests :
           (r1.kind = "start" /\ r2.kind = "start" /\ r1.n # r2.n) =>
               r1.session_id # r2.session_id
    /\ \A i, j \in DOMAIN HandedOf("call_start") :
           i # j => HandedOf("call_start")[i].session_id #
                        HandedOf("call_start")[j].session_id


\* The sockets that are connecting or open.
LiveSockets == {s \in SocketIds : Live(s)}

\* C21: at most one socket of the hook is live at any time.
C21_AtMostOneLiveSocket ==
    Cardinality(LiveSockets) <= 1


\* The press number of the most recent startSession: the button alternates
\* between Start and End, beginning with Start.
LatestStart == IF isCallActive THEN nPresses ELSE nPresses - 1

\* C22: the session status becomes active only in the step that delivers a
\* successful response to the creation request of the most recent
\* startSession.
C22_ActiveOnlyFromLatestStart ==
    [][(sessionStatus' = "active" /\ sessionStatus # "active")
         => \E r \in requests \ requests' :
               /\ r.kind = "start"
               /\ r.n = LatestStart
               /\ EndsWith(callLog', "start_ok")]_vars


\* The chunks of the audio_chunk envelopes on the wire, in sending order.
ChunksOnWire ==
    LET audio == WireOf("audio_chunk")
    IN  [i \in DOMAIN audio |-> audio[i].data]

\* C23: audio_chunk envelopes go on the wire in the order in which the
\* recorder produced their chunks.
C23_ChunksSentInCaptureOrder ==
    \A i, j \in DOMAIN ChunksOnWire :
        i < j => ChunksOnWire[i] < ChunksOnWire[j]


\* C24: every sendMessage call in which WebSocket.send raised ended by
\* raising the failure to its caller, and put nothing on the wire.
C24_SendFailureReported ==
    \A i \in DOMAIN sendLog :
        sendLog[i].raised =>
            /\ sendLog[i].threw
            /\ \A k \in DOMAIN wire : wire[k].call # i


\* C25: WebSocket.send writes an envelope only within the sendMessage call
\* that was handed it, once, to the socket in wsRef: a step adds at most one
\* write to the wire, that of the call made in this step, so no write is
\* repeated and an envelope refused while not connected is never written.
C25_AtMostOnce ==
    [][wire' # wire =>
         /\ Len(sendLog') = Len(sendLog) + 1
         /\ wire' = Append(wire, [socket |-> wsRef, call |-> Len(sendLog')])
         /\ \A k \in DOMAIN wire : wire[k].call < Len(sendLog')]_vars

\* An envelope was refused on a closed socket and, after a reconnection, a
\* later envelope was written to the new socket.
C25_Witness ==
    \E i, j \in DOMAIN sendLog :
        /\ i < j
        /\ ~sendLog[i].sent /\ ~sendLog[i].raised
        /\ sendLog[i].socket # NoSocket
        /\ sendLog[j].sent
        /\ sendLog[j].socket # sendLog[i].socket
        /\ \E k \in DOMAIN wire : wire[k].call = j


\* An explicit connect(), disconnect() or sendMessage() is called in this
\* step.
ExplicitCall ==
    \/ nConnects' # nConnects
    \/ nDisconnects' # nDisconnects
    \/ Len(sendLog') # Len(sendLog)

\* C26: the attempt counter changes only by one upwards in a step in which
\* a closure schedules a retry, or to 0 in a step in which a socket opens;
\* explicit connect, disconnect and sendMessage calls leave it as it is.
C26_CounterFrame ==
    [][/\ ExplicitCall => reconnectAttemptsRef' = reconnectAttemptsRef
       /\ reconnectAttemptsRef' # reconnectAttemptsRef =>
             \/ /\ SomeSocketOpens
                /\ reconnectAttemptsRef' = 0
             \/ /\ timers' \ timers # {}
                /\ reconnectAttemptsRef' = reconnectAttemptsRef + 1]_vars

\* The five retries have been used up and have failed, no timer is left,
\* and the newest socket, still connecting, was created by an explicit
\* connect(): the counter is still at the budget.
C26_Witness ==
    /\ lastConnect = "call"
    /\ nConnects = 2
    /\ nDisconnects = 0
    /\ reconnectAttemptsRef = maxReconnectAttempts
    /\ timers = {}
    /\ wsRef = Len(sockets)
    /\ Len(sockets) = maxReconnectAttempts + 2
    /\ sockets[wsRef].readyState = "CONNECTING"
    /\ \A s \in SocketIds : s # wsRef => sockets[s] = Socket("CLOSED", FALSE)


\* C27: between tasks, isConnected is true exactly when the socket in wsRef
\* is open, and isConnected implies connectionStatus = 'connected'.
C27_ConnectedIffOpen ==
    task = NoSocket =>
        /\ isConnected <=> IsOpen(wsRef)
        /\ isConnected => connectionStatus = "connected"


\* The call_start and call_end envelopes written before the i-th envelope
\* of the wire on the same connection.
CallMarksBefore(i) ==
    {j \in 1..(i - 1) :
        /\ Wire[j].socket = Wire[i].socket
        /\ Wire[j].type \in {"call_start", "call_end"}}

\* C28: on each connection, every audio_chunk envelope on the wire comes
\* after a call_start envelope with no call_end envelope in between.
C28_ChunksInsideCall ==
    \A i \in DOMAIN Wire :
        Wire[i].type = "audio_chunk" =>
            /\ CallMarksBefore(i) # {}
            /\ \E j \in CallMarksBefore(i) :
                   /\ \A k \in CallMarksBefore(i) : k <= j
                   /\ Wire[j].type = "call_start"


\* End was pressed while the creation request was pending, and both the
\* creation and the termination request have since succeeded.
EndedWhileStarting ==
    /\ Len(callLog) = 4
    /\ callLog[1] = "start"
    /\ callLog[2] = "end"
    /\ {callLog[3], callLog[4]} = {"start_ok", "end_ok"}

\* C29: when End was pressed before the creation request resolved, then in
\* whichever order the two responses arrived, once both have succeeded the
\* session is idle and sessionData is null.
C29_EndDuringStartSettlesIdle ==
    EndedWhileStarting =>
        /\ sessionStatus = "idle"
        /\ sessionData = NoSession


\* C30: at most one reconnection timer is pending, and reconnectTimeoutRef
\* holds it whenever one is pending.
C30_OnePendingTimer ==
    /\ Cardinality(timers) <= 1
    /\ \A t \in timers : t.id = reconnectTimeoutRef

====
